---- MODULE Spec2Model ----
(***************************************************************************)
(* A model of the OpenAI-compatible inference gateway:                     *)
(*   - LLMFactory, the backend registry   (src/app/core/llm/factory.py)    *)
(*   - MockLLM / BaseLLM, the backends    (src/app/core/llm/mock_llm.py,   *)
(*                                         src/app/core/llm/base.py)       *)
(*   - the stream framer and error envelope (src/app/utils/api.py)         *)
(*   - the four request handlers          (src/app/api/*.py)               *)
(*                                                                         *)
(* Python values: None is NoneVal; a str is a sequence of one-character    *)
(* strings; a dict is a function whose DOMAIN is its key set; a list is a  *)
(* sequence.  The insertion-ordered dict LLMFactory._llm_classes is a      *)
(* sequence of [name, cls] entries.                                        *)
(***************************************************************************)
EXTENDS Integers, Sequences, FiniteSets, TLC

VARIABLES
    llm_classes,    \* LLMFactory._llm_classes, in insertion order
    instances,      \* LLMFactory._instances: model name -> backend object
    default_model,  \* LLMFactory._default_model
    instSeq,        \* number of backend objects constructed so far (object identity)
    built,          \* history: [name, by] of every constructor call, in order
    lastCall,       \* history: the most recent direct call of a registry operation
    returned,       \* history: <<name, object id, k>> of every get_instance
                    \* return; k is 1 for a name's first return, 2 for later ones
    regLog,         \* history: the name of the first register call and the name
                    \* of the most recent register call with is_default true
    clock,          \* the wall clock read by BaseLLM._get_current_timestamp
    tasks           \* the request tasks of the event loop

vars == <<llm_classes, instances, default_model, instSeq, built, lastCall,
          returned, regLog, clock, tasks>>

regVars == <<llm_classes, instances, default_model, instSeq, built, returned,
             regLog>>

(***************************************************************************)
(* Bounds of the model.                                                    *)
(***************************************************************************)
MaxInstances == 4    \* constructor calls explored
MaxPromptLen == 2    \* characters of a prompt
MaxContentLen == 1   \* characters of a message content
MaxMessages  == 2    \* messages of a chat request
MaxChunks    == 2    \* chunks a backend other than MockLLM yields
MaxClock     == 1    \* seconds the wall clock advances
NumTasks     == 2    \* concurrent request tasks

NoneVal == "None"

(***************************************************************************)
(* Python str helpers.                                                     *)
(***************************************************************************)
Whitespace == {" ", "\t", "\n"}

RECURSIVE SplitFrom(_, _, _)
SplitFrom(s, i, cur) ==
    IF i > Len(s)
    THEN IF cur = <<>> THEN <<>> ELSE <<cur>>
    ELSE IF s[i] \in Whitespace
         THEN IF cur = <<>>
              THEN SplitFrom(s, i + 1, <<>>)
              ELSE <<cur>> \o SplitFrom(s, i + 1, <<>>)
         ELSE SplitFrom(s, i + 1, Append(cur, s[i]))

\* str.split() with no argument: the maximal runs of non-whitespace characters
Split(s) == SplitFrom(s, 1, <<>>)

RECURSIVE Concat(_)
Concat(ss) == IF ss = <<>> THEN <<>> ELSE Head(ss) \o Concat(Tail(ss))

(***************************************************************************)
(* Failures.  A raised Python exception is [kind, msg]; kind "ValueError"  *)
(* is the spec's InvalidArgument / NotFound, any other kind is a           *)
(* BackendFailure.  msg is str(e), as a sequence of string pieces.         *)
(***************************************************************************)
NoError == [kind |-> "none", msg |-> <<>>]
ValueError(msg) == [kind |-> "ValueError", msg |-> msg]
RuntimeError(msg) == [kind |-> "RuntimeError", msg |-> msg]

(***************************************************************************)
(* The registry: LLMFactory.                                               *)
(***************************************************************************)
Classes == {"MockLLM", "OtherLLM"}   \* MockLLM, and any other BaseLLM subclass

NoInstance == [id |-> 0, cls |-> NoneVal]

RegisteredNames == {llm_classes[i].name : i \in DOMAIN llm_classes}

ClassOf(name) ==
    LET i == CHOOSE k \in DOMAIN llm_classes : llm_classes[k].name = name
    IN  llm_classes[i].cls

\* a dict write that keeps the value already stored under the key
DictSet_first_write_wins(d, name, cls) ==
    IF \E i \in DOMAIN d : d[i].name = name
    THEN d
    ELSE Append(d, [name |-> name, cls |-> cls])

\* cls._llm_classes[model_name] = llm_class   (a dict keeps a key's position)
DictSet(d, name, cls) ==
    IF \E i \in DOMAIN d : d[i].name = name
    THEN [i \in DOMAIN d |-> IF d[i].name = name
                             THEN [name |-> name, cls |-> cls]
                             ELSE d[i]]
    ELSE Append(d, [name |-> name, cls |-> cls])

\* the name get_instance(None) resolves, were it the first registered name
DefaultName_first_registered ==
    IF llm_classes = <<>> THEN NoneVal ELSE llm_classes[1].name

\* the name get_instance(None) resolves: cls._default_model
DefaultName == default_model

\* register making a name the default only while no default exists
DefaultAfterRegister_first_only(model_name, is_default) ==
    IF default_model = NoneVal THEN model_name ELSE default_model

\* the default after register(model_name, _, is_default)
\* register setting the default only when is_default is given
DefaultAfterRegister_only_when_asked(model_name, is_default) ==
    IF is_default THEN model_name ELSE default_model

DefaultAfterRegister(model_name, is_default) ==
    IF is_default \/ default_model = NoneVal THEN model_name ELSE default_model

\* cls._llm_classes[model_name](): a new backend object
Construct(seq, name) == [id |-> seq + 1, cls |-> ClassOf(name)]

\* get_instance without the `if model_name not in cls._instances` test: every
\* call constructs
get_instance_rebuilds(model_name) ==
    LET name == IF model_name = NoneVal THEN default_model ELSE model_name
    IN  IF model_name = NoneVal /\ default_model = NoneVal
        THEN [error |-> ValueError(<<"No default model registered">>),
              inst |-> NoInstance, instances |-> instances, built |-> <<>>]
        ELSE IF name \notin RegisteredNames
        THEN [error |-> ValueError(<<"Model '", name, "' not found">>),
              inst |-> NoInstance, instances |-> instances, built |-> <<>>]
        ELSE LET new == Construct(instSeq, name)
             IN  [error |-> NoError, inst |-> new,
                  instances |-> (name :> new) @@ instances,
                  built |-> <<name>>]

\* get_instance caching an empty entry under a name that has no class
get_instance_caches_missing(model_name) ==
    LET name == IF model_name = NoneVal THEN default_model ELSE model_name
    IN  IF model_name = NoneVal /\ default_model = NoneVal
        THEN [error |-> ValueError(<<"No default model registered">>),
              inst |-> NoInstance, instances |-> instances, built |-> <<>>]
        ELSE IF name \notin DOMAIN instances
        THEN IF name \notin RegisteredNames
             THEN [error |-> ValueError(<<"Model '", name, "' not found">>),
                   inst |-> NoInstance,
                   instances |-> (name :> NoInstance) @@ instances,
                   built |-> <<>>]
             ELSE LET new == Construct(instSeq, name)
                  IN  [error |-> NoError, inst |-> new,
                       instances |-> (name :> new) @@ instances,
                       built |-> <<name>>]
        ELSE [error |-> NoError, inst |-> instances[name],
              instances |-> instances, built |-> <<>>]

\* LLMFactory.get_instance, as a function of the registry state.  The result
\* carries the returned object (or the raised error) and the new _instances.
\* get_instance constructing anew when the registration of the name changed
get_instance_follows_registration(model_name) ==
    LET name == IF model_name = NoneVal THEN DefaultName ELSE model_name
    IN  IF model_name = NoneVal /\ DefaultName = NoneVal
        THEN [error |-> ValueError(<<"No default model registered">>),
              inst |-> NoInstance, instances |-> instances, built |-> <<>>]
        ELSE IF name \notin RegisteredNames
        THEN IF name \in DOMAIN instances
             THEN [error |-> NoError, inst |-> instances[name],
                   instances |-> instances, built |-> <<>>]
             ELSE [error |-> ValueError(<<"Model '", name, "' not found">>),
                   inst |-> NoInstance, instances |-> instances, built |-> <<>>]
        ELSE IF name \in DOMAIN instances /\ instances[name].cls = ClassOf(name)
        THEN [error |-> NoError, inst |-> instances[name],
              instances |-> instances, built |-> <<>>]
        ELSE LET new == Construct(instSeq, name)
             IN  [error |-> NoError, inst |-> new,
                  instances |-> (name :> new) @@ instances,
                  built |-> <<name>>]

get_instance(model_name) ==
    LET name == IF model_name = NoneVal THEN DefaultName ELSE model_name
    IN  IF model_name = NoneVal /\ DefaultName = NoneVal
        THEN [error |-> ValueError(<<"No default model registered">>),
              inst |-> NoInstance, instances |-> instances, built |-> <<>>]
        ELSE IF name \notin DOMAIN instances
        THEN IF name \notin RegisteredNames
             THEN [error |-> ValueError(<<"Model '", name, "' not found">>),
                   inst |-> NoInstance, instances |-> instances, built |-> <<>>]
             ELSE LET new == Construct(instSeq, name)
                  IN  [error |-> NoError, inst |-> new,
                       instances |-> (name :> new) @@ instances,
                       built |-> <<name>>]
        ELSE [error |-> NoError, inst |-> instances[name],
              instances |-> instances, built |-> <<>>]

\* MockLLM.get_models: the one descriptor of model_id "mock-gpt-1"
MockModels ==
    << [id |-> "mock-gpt-1", object |-> "model", created |-> <<2023, 1, 1>>,
        owned_by |-> "mock-organization", permission |-> <<>>,
        root |-> "mock-gpt-1", parent |-> NoneVal] >>

\* what get_models of a backend other than MockLLM may do: return its
\* descriptors, or raise
OtherModels ==
    << [id |-> "other-1", object |-> "model", created |-> <<2024, 1, 1>>,
        owned_by |-> "other-organization", permission |-> <<>>,
        root |-> "other-1", parent |-> NoneVal] >>

OtherGetModels ==
    { [error |-> NoError, models |-> OtherModels],
      [error |-> RuntimeError(<<"engine down">>), models |-> <<>>] }

\* inst.get_models(); om is what an OtherLLM object does in this call
get_models(inst, om) ==
    IF inst.cls = "MockLLM" THEN [error |-> NoError, models |-> MockModels] ELSE om

\* the loop of LLMFactory.get_available_models from the i-th registration on
RECURSIVE AvailableFrom(_, _, _, _, _)
AvailableFrom(i, insts, blt, models, om) ==
    IF i > Len(llm_classes)
    THEN [error |-> NoError, models |-> models, instances |-> insts, built |-> blt]
    ELSE LET name   == llm_classes[i].name
             known  == name \in DOMAIN insts
             inst   == IF known THEN insts[name]
                       ELSE Construct(instSeq + Len(blt), name)
             insts2 == IF known THEN insts ELSE (name :> inst) @@ insts
             blt2   == IF known THEN blt ELSE Append(blt, name)
             got    == get_models(inst, om)
         IN  IF got.error.kind # "none"
             THEN [error |-> got.error, models |-> <<>>,
                   instances |-> insts2, built |-> blt2]
             ELSE AvailableFrom(i + 1, insts2, blt2, models \o got.models, om)

\* get_available_models constructing every backend anew
get_available_models_rebuilds(om) == AvailableFrom(1, <<>>, <<>>, <<>>, om)

\* get_available_models visiting only the last registered name
get_available_models_last_only(om) ==
    IF llm_classes = <<>> THEN AvailableFrom(1, instances, <<>>, <<>>, om)
    ELSE AvailableFrom(Len(llm_classes), instances, <<>>, <<>>, om)

\* LLMFactory.get_available_models
get_available_models(om) == AvailableFrom(1, instances, <<>>, <<>>, om)

\* register dropping the cached object of the name it registers
register_invalidates(model_name, llm_class, is_default) ==
    [llm_classes   |-> DictSet(llm_classes, model_name, llm_class),
     default_model |-> DefaultAfterRegister(model_name, is_default),
     instances     |-> [n \in DOMAIN instances \ {model_name} |-> instances[n]]]

\* LLMFactory.register: the registry fields after the call
register(model_name, llm_class, is_default) ==
    [llm_classes   |-> DictSet(llm_classes, model_name, llm_class),
     default_model |-> DefaultAfterRegister(model_name, is_default),
     instances     |-> instances]

(***************************************************************************)
(* The backends: BaseLLM's response builders and MockLLM.                  *)
(***************************************************************************)
\* "This is a mock response to: "
MockPrefix ==
    << "T", "h", "i", "s", " ", "i", "s", " ", "a", " ", "m", "o", "c",
       "k", " ", "r", "e", "s", "p", "o", "n", "s", "e", " ", "t", "o",
       ":", " " >>

\* "This is a mock chat response to: "
MockChatPrefix ==
    << "T", "h", "i", "s", " ", "i", "s", " ", "a", " ", "m", "o", "c",
       "k", " ", "c", "h", "a", "t", " ", "r", "e", "s", "p", "o", "n",
       "s", "e", " ", "t", "o", ":", " " >>

\* "I'm a mock AI assistant. How can I help you today?"
MockChatDefault ==
    << "I", "'", "m", " ", "a", " ", "m", "o", "c", "k", " ", "A", "I",
       " ", "a", "s", "s", "i", "s", "t", "a", "n", "t", ".", " ", "H",
       "o", "w", " ", "c", "a", "n", " ", "I", " ", "h", "e", "l", "p",
       " ", "y", "o", "u", " ", "t", "o", "d", "a", "y", "?" >>

\* BaseLLM._create_completion_response, with the clock reading `now`
create_completion_response(text, model, prompt_tokens, completion_tokens, now) ==
    [id |-> <<"cmpl-", now>>, object |-> "text_completion", created |-> now,
     model |-> model,
     choices |-> << [text |-> text, index |-> 0, logprobs |-> NoneVal,
                     finish_reason |-> "stop"] >>,
     usage |-> [prompt_tokens |-> prompt_tokens,
                completion_tokens |-> completion_tokens,
                total_tokens |-> prompt_tokens + completion_tokens]]

\* BaseLLM._create_chat_completion_response, with the clock reading `now`
create_chat_completion_response(content, model, prompt_tokens, completion_tokens, now) ==
    [id |-> <<"chatcmpl-", now>>, object |-> "chat.completion", created |-> now,
     model |-> model,
     choices |-> << [index |-> 0,
                     message |-> [role |-> "assistant", content |-> content],
                     finish_reason |-> "stop"] >>,
     usage |-> [prompt_tokens |-> prompt_tokens,
                completion_tokens |-> completion_tokens,
                total_tokens |-> prompt_tokens + completion_tokens]]

\* f"This is a mock response to: {prompt}"
MockResponseText(prompt) == MockPrefix \o prompt

\* MockLLM.complete (after its sleep), with the clock reading `now`
MockComplete(prompt, now) ==
    LET response_text == MockResponseText(prompt)
    IN  create_completion_response(response_text, "mock-gpt",
            Len(Split(prompt)), Len(Split(response_text)), now)

\* MockLLM.complete returning n choices
complete_n_choices(prompt, n, now) ==
    [MockComplete(prompt, now) EXCEPT
        !.choices = [i \in 1 .. n |->
                        [MockComplete(prompt, now).choices[1] EXCEPT !.index = i - 1]]]

\* MockLLM.complete(prompt=prompt, ..., n=n, ...): n is ignored
complete(prompt, n, now) == MockComplete(prompt, now)

\* messages[-1] if messages else {"role": "user", "content": ""}
LastMessage(messages) ==
    IF messages # <<>> THEN messages[Len(messages)]
    ELSE [role |-> "user", content |-> <<>>]

MockChatContent(messages) ==
    LET last_message == LastMessage(messages)
    IN  IF last_message.role = "user"
        THEN MockChatPrefix \o last_message.content
        ELSE MockChatDefault

\* prompt tokens counted over the last message only
SumWords_last_only(messages) ==
    IF messages = <<>> THEN 0
    ELSE Len(Split(messages[Len(messages)].content))

RECURSIVE SumWords(_)
\* sum(len(msg.get("content", "").split()) for msg in messages)
SumWords(messages) ==
    IF messages = <<>> THEN 0
    ELSE Len(Split(Head(messages).content)) + SumWords(Tail(messages))

\* MockLLM.chat_complete (after its sleep), with the clock reading `now`
MockChatComplete(messages, now) ==
    LET response_content == MockChatContent(messages)
    IN  create_chat_completion_response(response_content, "mock-gpt",
            SumWords(messages), Len(Split(response_content)), now)

(***************************************************************************)
(* Backend streams.  An async generator object is                          *)
(*   [op, cls, arg, state, pos, ts, at]                                    *)
(* state "created" (body not yet entered), "running" or "finished"; pos is *)
(* the number of chunks yielded; ts is the clock reading taken when the    *)
(* body was entered, at the clock reading of its latest resumption (a      *)
(* history field).  One call of __anext__ gives                            *)
(*   [kind, chunk, error, gen]  with kind "yield", "stop" or "raise".      *)
(***************************************************************************)
NoChunk == [object |-> "none"]

NewGen(op, cls, arg) ==
    [op |-> op, cls |-> cls, arg |-> arg, state |-> "created", pos |-> 0, ts |-> 0,
     at |-> 0]

\* a generator reading the clock anew for every chunk
GenTs_every_chunk(g, now) == now

GenTs(g, now) == IF g.state = "created" THEN now ELSE g.ts

Yield(g, now, chunk) ==
    [kind |-> "yield", chunk |-> chunk, error |-> NoError,
     gen |-> [g EXCEPT !.state = "running", !.pos = g.pos + 1,
                       !.ts = GenTs(g, now), !.at = now]]

Stop(g, now) ==
    [kind |-> "stop", chunk |-> NoChunk, error |-> NoError,
     gen |-> [g EXCEPT !.state = "finished", !.ts = GenTs(g, now), !.at = now]]

Raise(g, now, e) ==
    [kind |-> "raise", chunk |-> NoChunk, error |-> e,
     gen |-> [g EXCEPT !.state = "finished", !.ts = GenTs(g, now), !.at = now]]

\* the finish_reason of the i-th word chunk of n: "stop" if is_last else None
WordFinishReason(i, n) == IF i = n THEN "stop" ELSE NoneVal

\* a word chunk that carries a usage summary
MockTextWordChunk_with_usage(words, i, ts) ==
    [id |-> <<"cmpl-", ts>>, object |-> "text_completion", created |-> ts,
     model |-> "mock-gpt",
     choices |-> << [text |-> words[i] \o <<" ">>, index |-> 0,
                     logprobs |-> NoneVal,
                     finish_reason |-> WordFinishReason(i, Len(words))] >>,
     usage |-> [prompt_tokens |-> 0, completion_tokens |-> i, total_tokens |-> i]]

\* the chunk MockLLM.complete_stream yields for the i-th word
MockTextWordChunk(words, i, ts) ==
    [id |-> <<"cmpl-", ts>>, object |-> "text_completion", created |-> ts,
     model |-> "mock-gpt",
     choices |-> << [text |-> words[i] \o <<" ">>, index |-> 0,
                     logprobs |-> NoneVal,
                     finish_reason |-> WordFinishReason(i, Len(words))] >>]

\* a final chunk counting the chunks of the stream as completion tokens
MockTextFinalChunk_counts_chunks(words, prompt_tokens, ts) ==
    [id |-> <<"cmpl-", ts>>, object |-> "text_completion", created |-> ts,
     model |-> "mock-gpt",
     choices |-> << [text |-> <<>>, index |-> 0, logprobs |-> NoneVal,
                     finish_reason |-> "stop"] >>,
     usage |-> [prompt_tokens |-> prompt_tokens,
                completion_tokens |-> Len(words) + 1,
                total_tokens |-> prompt_tokens + Len(words) + 1]]

\* the final chunk of MockLLM.complete_stream, with the usage
MockTextFinalChunk(words, prompt_tokens, ts) ==
    [id |-> <<"cmpl-", ts>>, object |-> "text_completion", created |-> ts,
     model |-> "mock-gpt",
     choices |-> << [text |-> <<>>, index |-> 0, logprobs |-> NoneVal,
                     finish_reason |-> "stop"] >>,
     usage |-> [prompt_tokens |-> prompt_tokens,
                completion_tokens |-> Len(words),
                total_tokens |-> prompt_tokens + Len(words)]]

\* one __anext__ of MockLLM.complete_stream(prompt = g.arg)
MockCompleteStreamNext(g, now) ==
    LET words == Split(MockResponseText(g.arg))
        ts    == GenTs(g, now)
    IN  IF g.state = "finished" THEN Stop(g, now)
        ELSE IF g.pos < Len(words)
        THEN Yield(g, now, MockTextWordChunk(words, g.pos + 1, ts))
        ELSE IF g.pos = Len(words)
        THEN Yield(g, now, MockTextFinalChunk(words, Len(Split(g.arg)), ts))
        ELSE Stop(g, now)

\* a first chat chunk whose delta carries the role and an empty content
MockChatRoleChunk_with_content(ts) ==
    [id |-> <<"chatcmpl-", ts>>, object |-> "chat.completion.chunk",
     created |-> ts, model |-> "mock-gpt",
     choices |-> << [index |-> 0,
                     delta |-> [role |-> "assistant", content |-> <<>>],
                     finish_reason |-> NoneVal] >>]

\* the chunks of MockLLM.chat_complete_stream
MockChatRoleChunk(ts) ==
    [id |-> <<"chatcmpl-", ts>>, object |-> "chat.completion.chunk",
     created |-> ts, model |-> "mock-gpt",
     choices |-> << [index |-> 0, delta |-> [role |-> "assistant"],
                     finish_reason |-> NoneVal] >>]

MockChatWordChunk(words, i, ts) ==
    [id |-> <<"chatcmpl-", ts>>, object |-> "chat.completion.chunk",
     created |-> ts, model |-> "mock-gpt",
     choices |-> << [index |-> 0, delta |-> [content |-> words[i] \o <<" ">>],
                     finish_reason |-> WordFinishReason(i, Len(words))] >>]

MockChatFinalChunk(words, prompt_tokens, ts) ==
    [id |-> <<"chatcmpl-", ts>>, object |-> "chat.completion.chunk",
     created |-> ts, model |-> "mock-gpt",
     choices |-> << [index |-> 0, delta |-> <<>>, finish_reason |-> "stop"] >>,
     usage |-> [prompt_tokens |-> prompt_tokens,
                completion_tokens |-> Len(words),
                total_tokens |-> prompt_tokens + Len(words)]]

\* one __anext__ of MockLLM.chat_complete_stream(messages = g.arg)
MockChatCompleteStreamNext(g, now) ==
    LET words == Split(MockChatContent(g.arg))
        ts    == GenTs(g, now)
    IN  IF g.state = "finished" THEN Stop(g, now)
        ELSE IF g.pos = 0 THEN Yield(g, now, MockChatRoleChunk(ts))
        ELSE IF g.pos <= Len(words)
        THEN Yield(g, now, MockChatWordChunk(words, g.pos, ts))
        ELSE IF g.pos = Len(words) + 1
        THEN Yield(g, now, MockChatFinalChunk(words, SumWords(g.arg), ts))
        ELSE Stop(g, now)

\* A backend other than MockLLM: what one __anext__ of its stream may do.
\* It yields at most MaxChunks chunks, then ends or raises.
OtherFailures == {ValueError(<<"bad input">>), RuntimeError(<<"engine down">>)}

OtherChunk(g, ts) ==
    [id |-> <<"other-", ts>>, object |-> "text_completion", created |-> ts,
     model |-> "other",
     choices |-> << [text |-> <<"x">>, index |-> 0, logprobs |-> NoneVal,
                     finish_reason |-> NoneVal] >>]

OtherStreamNext(g, now) ==
    IF g.state = "finished" THEN {Stop(g, now)}
    ELSE {Stop(g, now)}
         \cup {Raise(g, now, e) : e \in OtherFailures}
         \cup (IF g.pos < MaxChunks
               THEN {Yield(g, now, OtherChunk(g, GenTs(g, now)))} ELSE {})

\* the possible results of one __anext__ of the backend generator g
\* the generators of one backend instance sharing their position
GenNext_shared_position(g, now) ==
    LET far    == CHOOSE p \in {tasks[t].gen.pos : t \in DOMAIN tasks} :
                      \A t \in DOMAIN tasks : tasks[t].gen.pos <= p
        shared == [g EXCEPT !.pos = far]
    IN  IF g.cls = "MockLLM"
        THEN IF g.op = "complete_stream"
             THEN {MockCompleteStreamNext(shared, now)}
             ELSE {MockChatCompleteStreamNext(shared, now)}
        ELSE OtherStreamNext(g, now)

GenNext(g, now) ==
    IF g.cls = "MockLLM"
    THEN IF g.op = "complete_stream"
         THEN {MockCompleteStreamNext(g, now)}
         ELSE {MockChatCompleteStreamNext(g, now)}
    ELSE OtherStreamNext(g, now)

(***************************************************************************)
(* Direct calls of the registry operations.                                *)
(***************************************************************************)
RegNames == {"mock-gpt", "alt-gpt"}          \* names given to register
LookupNames == RegNames \cup {"no-such-model"}  \* names given to get_instance

NoCall == [op |-> "none", arg |-> NoneVal, default_before |-> NoneVal,
           registered_before |-> {}, error |-> NoError, inst |-> NoInstance,
           models |-> <<>>]

\* the history after a register(model_name, _, is_default) call
Logged(model_name, is_default) ==
    [first |-> IF regLog.first = NoneVal THEN model_name ELSE regLog.first,
     last_default |-> IF is_default THEN model_name ELSE regLog.last_default]

Register(model_name, llm_class, is_default) ==
    LET r == register(model_name, llm_class, is_default)
    IN  /\ llm_classes' = r.llm_classes
        /\ default_model' = r.default_model
        /\ instances' = r.instances
        /\ lastCall' = [NoCall EXCEPT !.op = "register", !.arg = model_name,
                                      !.default_before = default_model,
                                      !.registered_before = RegisteredNames]
        /\ regLog' = Logged(model_name, is_default)
        /\ UNCHANGED <<instSeq, built, returned, clock, tasks>>

Returned(r, model_name) ==
    LET name == IF model_name = NoneVal THEN default_model ELSE model_name
    IN  IF r.error.kind = "none"
        THEN returned \cup {<<name, r.inst.id,
                              IF \E p \in returned : p[1] = name THEN 2 ELSE 1>>}
        ELSE returned

\* the history entries of the constructor calls `names` made by operation `by`
BuiltBy(names, by) == [i \in DOMAIN names |-> [name |-> names[i], by |-> by]]

GetInstance(model_name) ==
    LET r == get_instance(model_name)
    IN  /\ instSeq + Len(r.built) <= MaxInstances
        /\ instances' = r.instances
        /\ instSeq' = instSeq + Len(r.built)
        /\ built' = built \o BuiltBy(r.built, "get_instance")
        /\ returned' = Returned(r, model_name)
        /\ lastCall' = [NoCall EXCEPT !.op = "get_instance", !.arg = model_name,
                                      !.default_before = default_model,
                                      !.registered_before = RegisteredNames,
                                      !.error = r.error, !.inst = r.inst]
        /\ UNCHANGED <<llm_classes, default_model, regLog, clock, tasks>>

GetAvailableModels(om) ==
    LET r == get_available_models(om)
    IN  /\ instSeq + Len(r.built) <= MaxInstances
        /\ instances' = r.instances
        /\ instSeq' = instSeq + Len(r.built)
        /\ built' = built \o BuiltBy(r.built, "get_available_models")
        /\ lastCall' = [NoCall EXCEPT !.op = "get_available_models",
                                      !.default_before = default_model,
                                      !.registered_before = RegisteredNames,
                                      !.error = r.error, !.models = r.models]
        /\ UNCHANGED <<llm_classes, default_model, returned, regLog, clock, tasks>>

(***************************************************************************)
(* Error envelope and stream framer: src/app/utils/api.py.                 *)
(***************************************************************************)
\* the exception kinds that are subclasses of Exception
ExceptionKinds == {"ValueError", "RuntimeError"}

\* an `except Exception` that caught every BaseException
Catches_base_exception(clause, e) ==
    IF clause = "ValueError" THEN e.kind = "ValueError" ELSE TRUE

\* whether `except <clause>` catches the raised e
Catches(clause, e) ==
    IF clause = "ValueError" THEN e.kind = "ValueError"
    ELSE e.kind \in ExceptionKinds

NoResponse == [kind |-> "none", status |-> 0, body |-> <<>>]

\* create_error_response: `param` enters the envelope only when it is given
create_error_response(message, type, status_code, param) ==
    [kind |-> "error", status |-> status_code,
     body |-> [error |-> IF param # NoneVal
                         THEN [message |-> message, type |-> type, param |-> param]
                         ELSE [message |-> message, type |-> type]]]

\* a handler returning `body` (HTTP 200)
Result(body) == [kind |-> "result", status |-> 200, body |-> body]

\* a handler returning the StreamingResponse of create_stream_response
StreamingResponse == [kind |-> "stream", status |-> 200, body |-> <<>>]

\* an exception leaving the handler
Escaped(e) == [kind |-> "escaped", status |-> 0, body |-> [exception |-> e]]

\* json.dumps(obj)
JsonDumps(obj) == [json |-> obj]

\* f"data: {payload}\n\n"
Frame(payload) == [sse |-> "data: ", payload |-> payload, end |-> "\n\n"]

\* "data: [DONE]\n\n"
DoneFrame == Frame([text |-> "[DONE]"])

\* the error event of stream_generator's except clause
ErrorFrame(e) ==
    Frame(JsonDumps([error |-> [message |-> e.msg, type |-> "server_error"]]))

IsDone(ev) == "text" \in DOMAIN ev.payload
IsErrorEvent(ev) == "json" \in DOMAIN ev.payload /\ "error" \in DOMAIN ev.payload.json
IsChunkEvent(ev) == "json" \in DOMAIN ev.payload /\ "error" \notin DOMAIN ev.payload.json

\* stream_generator whose except clause yields the error event only
stream_generator_no_done_after_error(framer, r) ==
    IF framer = "loop"
    THEN IF r.kind = "yield"
         THEN [framer |-> "loop", emit |-> <<Frame(JsonDumps(r.chunk))>>]
         ELSE IF r.kind = "stop"
         THEN [framer |-> "done_sent", emit |-> <<DoneFrame>>]
         ELSE [framer |-> "error_sent", emit |-> <<ErrorFrame(r.error)>>]
    ELSE [framer |-> "closed", emit |-> <<>>]

\* stream_generator whose try/except sits inside the loop: after the error
\* event it goes on iterating the backend
stream_generator_keeps_driving(framer, r) ==
    IF r.kind = "yield"
    THEN [framer |-> "loop", emit |-> <<Frame(JsonDumps(r.chunk))>>]
    ELSE IF r.kind = "stop"
    THEN IF framer = "loop"
         THEN [framer |-> "done_sent", emit |-> <<DoneFrame>>]
         ELSE [framer |-> "closed", emit |-> <<>>]
    ELSE [framer |-> "loop", emit |-> <<ErrorFrame(r.error)>>]

\* stream_generator never resuming after its error event
stream_generator_stalls_after_error(framer, r) ==
    IF framer = "loop"
    THEN IF r.kind = "yield"
         THEN [framer |-> "loop", emit |-> <<Frame(JsonDumps(r.chunk))>>]
         ELSE IF r.kind = "stop"
         THEN [framer |-> "done_sent", emit |-> <<DoneFrame>>]
         ELSE IF Catches("Exception", r.error)
         THEN [framer |-> "error_sent", emit |-> <<ErrorFrame(r.error)>>]
         ELSE [framer |-> "crashed", emit |-> <<>>]
    ELSE IF framer = "error_sent"
    THEN [framer |-> "error_sent", emit |-> <<>>]
    ELSE [framer |-> "closed", emit |-> <<>>]

\* stream_generator emitting the frame of every chunk twice
stream_generator_repeats_chunk(framer, r) ==
    IF framer = "loop"
    THEN IF r.kind = "yield"
         THEN [framer |-> "loop",
               emit |-> <<Frame(JsonDumps(r.chunk)), Frame(JsonDumps(r.chunk))>>]
         ELSE IF r.kind = "stop"
         THEN [framer |-> "done_sent", emit |-> <<DoneFrame>>]
         ELSE IF Catches("Exception", r.error)
         THEN [framer |-> "error_sent", emit |-> <<ErrorFrame(r.error)>>]
         ELSE [framer |-> "crashed", emit |-> <<>>]
    ELSE IF framer = "error_sent"
    THEN [framer |-> "done_sent", emit |-> <<DoneFrame>>]
    ELSE [framer |-> "closed", emit |-> <<>>]

\* One __anext__ of create_stream_response.stream_generator.  framer is where
\* the generator is suspended: "loop" (not started, or at the yield of a chunk
\* event), "error_sent" (at the yield of the error event), "done_sent" (at a
\* yield of the sentinel), "closed" (returned), "crashed" (an exception left
\* it).  r is what the backend generator does when it is driven.
stream_generator(framer, r) ==
    IF framer = "loop"
    THEN IF r.kind = "yield"
         THEN [framer |-> "loop", emit |-> <<Frame(JsonDumps(r.chunk))>>]
         ELSE IF r.kind = "stop"
         THEN [framer |-> "done_sent", emit |-> <<DoneFrame>>]
         ELSE IF Catches("Exception", r.error)
         THEN [framer |-> "error_sent", emit |-> <<ErrorFrame(r.error)>>]
         ELSE [framer |-> "crashed", emit |-> <<>>]
    ELSE IF framer = "error_sent"
    THEN [framer |-> "done_sent", emit |-> <<DoneFrame>>]
    ELSE [framer |-> "closed", emit |-> <<>>]

\* what reaches stream_generator when the client disconnects: the task is
\* cancelled (CancelledError) or the generator is closed (GeneratorExit);
\* neither is a subclass of Exception
Cancellations ==
    {[kind |-> "CancelledError", msg |-> <<>>],
     [kind |-> "GeneratorExit", msg |-> <<>>]}

\* stream_generator when e is raised at the point where it is suspended: only
\* inside the try block (framer "loop") can its except clause see e
stream_generator_cancel(framer, e) ==
    IF framer = "loop" /\ Catches("Exception", e)
    THEN [framer |-> "error_sent", emit |-> <<ErrorFrame(e)>>, open |-> TRUE]
    ELSE [framer |-> framer, emit |-> <<>>, open |-> FALSE]

(***************************************************************************)
(* The request handlers: src/app/api/*.py.                                 *)
(***************************************************************************)
\* CompletionRequest.validate_prompt: an empty list becomes ""
validate_prompt(v) ==
    IF v.tag # "str" /\ v.val = <<>> THEN [tag |-> "str", val |-> <<>>] ELSE v

\* the handlers' try/except without the `except ValueError` clause
GenerationExcept_all_server_error(e, prefix) ==
    IF Catches("Exception", e)
    THEN create_error_response(<<prefix>> \o e.msg, "server_error", 500, NoneVal)
    ELSE Escaped(e)

\* the try/except of create_completion and create_chat_completion
GenerationExcept(e, prefix) ==
    IF Catches("ValueError", e)
    THEN create_error_response(e.msg, "invalid_request_error", 400, NoneVal)
    ELSE IF Catches("Exception", e)
    THEN create_error_response(<<prefix>> \o e.msg, "server_error", 500, NoneVal)
    ELSE Escaped(e)

\* the models handlers' try/except catching ValueError only
ModelsExcept_value_error_only(e, prefix) ==
    IF Catches("ValueError", e)
    THEN create_error_response(<<prefix>> \o e.msg, "server_error", 500, NoneVal)
    ELSE Escaped(e)

\* the try/except of list_models and get_model
ModelsExcept(e, prefix) ==
    IF Catches("Exception", e)
    THEN create_error_response(<<prefix>> \o e.msg, "server_error", 500, NoneVal)
    ELSE Escaped(e)

Tasks == 1 .. NumTasks

NoGen == NewGen("none", NoneVal, <<>>)

IdleTask ==
    [pc |-> "idle", handler |-> NoneVal, model |-> NoneVal, stream |-> FALSE,
     n |-> 1, input |-> <<>>, llm |-> NoInstance, arg |-> <<>>, gen |-> NoGen,
     framer |-> "none", events |-> <<>>, requested |-> 0, failed |-> NoError,
     response |-> NoResponse]

\* the task after the handler returned `response` without suspending
Returned1(handler, req, llm, response) ==
    [IdleTask EXCEPT !.pc = "done", !.handler = handler, !.model = req.model,
                     !.stream = req.stream, !.n = req.n, !.input = req.input,
                     !.llm = llm,
                     !.response = response]

\* the registry part of a handler step that called get_instance with result r
ResolveEffect(r, model_name) ==
    /\ instSeq + Len(r.built) <= MaxInstances
    /\ instances' = r.instances
    /\ instSeq' = instSeq + Len(r.built)
    /\ built' = built \o BuiltBy(r.built, "get_instance")
    /\ returned' = Returned(r, model_name)
    /\ UNCHANGED <<llm_classes, default_model, regLog, lastCall, clock>>

\* what calling a backend operation (before it first suspends) may do: a
\* MockLLM operation never raises there, another backend's may
CallOutcomes(llm) == IF llm.cls = "MockLLM" THEN {NoError} ELSE {NoError} \cup OtherFailures

\* the token-list test recognising only a flat list of integers
IsTokenList_flat_only(p) == p.tag = "list_int"

\* isinstance(prompt, list) and not all(isinstance(x, str) for x in prompt)
IsTokenList(p) == p.tag \notin {"str", "list_str"}

\* the prompt taken from the last element of a list of strings
PromptText_last(p) ==
    IF p.tag = "str" THEN p.val
    ELSE IF p.val # <<>> THEN p.val[Len(p.val)] ELSE <<>>

\* the prompt handed to the backend: `prompt[0] if prompt else ""` for a list
\* of strings, the prompt itself for a string
PromptText(p) ==
    IF p.tag = "str" THEN p.val
    ELSE IF p.val # <<>> THEN p.val[1] ELSE <<>>

\* create_completion from its first line to its first suspension or return
CompletionStart(req, r, oc) ==
    IF r.error.kind # "none"
    THEN Returned1("completions", req, r.inst,
                   GenerationExcept(r.error, "Completion request failed: "))
    ELSE LET p == req.input
         IN  IF IsTokenList(p)
             THEN Returned1("completions", req, r.inst,
                      create_error_response(
                          <<"Token lists as prompts are not supported">>,
                          "invalid_request_error", 400, "prompt"))
             ELSE LET prompt == PromptText(p)
                  IN  IF oc.kind # "none"
                      THEN [Returned1("completions", req, r.inst,
                               GenerationExcept(oc, "Completion request failed: "))
                            EXCEPT !.arg = prompt, !.failed = oc]
                      ELSE IF req.stream
                      THEN [Returned1("completions", req, r.inst, StreamingResponse)
                            EXCEPT !.pc = "streaming", !.arg = prompt,
                                   !.framer = "loop",
                                   !.gen = NewGen("complete_stream", r.inst.cls, prompt)]
                      ELSE [Returned1("completions", req, r.inst, NoResponse)
                            EXCEPT !.pc = "awaiting", !.arg = prompt]

CreateCompletion(t, req, oc) ==
    LET r == get_instance(req.model)
    IN  /\ tasks[t].pc = "idle"
        /\ oc \in CallOutcomes(r.inst)
        /\ ResolveEffect(r, req.model)
        /\ tasks' = [tasks EXCEPT ![t] = CompletionStart(req, r, oc)]

\* create_chat_completion from its first line to its first suspension or return
ChatCompletionStart(req, r, oc) ==
    IF r.error.kind # "none"
    THEN Returned1("chat", req, r.inst,
                   GenerationExcept(r.error, "Chat completion request failed: "))
    ELSE IF oc.kind # "none"
    THEN [Returned1("chat", req, r.inst,
              GenerationExcept(oc, "Chat completion request failed: "))
          EXCEPT !.arg = req.input, !.failed = oc]
    ELSE IF req.stream
    THEN [Returned1("chat", req, r.inst, StreamingResponse)
          EXCEPT !.pc = "streaming", !.arg = req.input, !.framer = "loop",
                 !.gen = NewGen("chat_complete_stream", r.inst.cls, req.input)]
    ELSE [Returned1("chat", req, r.inst, NoResponse)
          EXCEPT !.pc = "awaiting", !.arg = req.input]

\* ChatCompletionRequest.validate_messages: an empty list is refused
validate_messages(v) ==
    IF v = <<>> THEN ValueError(<<"messages must not be empty">>) ELSE NoError

\* the answer to a request body that fails validation: HTTP 422, and the
\* handler is not called
RequestValidationError(e, field) ==
    [kind |-> "validation_error", status |-> 422,
     body |-> [detail |-> << [loc |-> <<"body", field>>, msg |-> e.msg] >>]]

\* a POST /chat/completions request: validation of the body, then the handler
CreateChatCompletion(t, req, oc) ==
    LET v == validate_messages(req.input)
        r == get_instance(req.model)
    IN  /\ tasks[t].pc = "idle"
        /\ IF v.kind # "none"
           THEN /\ oc = NoError
                /\ tasks' = [tasks EXCEPT ![t] =
                       [Returned1("chat", req, NoInstance,
                                  RequestValidationError(v, "messages"))
                        EXCEPT !.pc = "rejected"]]
                /\ UNCHANGED <<regVars, lastCall, clock>>
           ELSE /\ oc \in CallOutcomes(r.inst)
                /\ ResolveEffect(r, req.model)
                /\ tasks' = [tasks EXCEPT ![t] = ChatCompletionStart(req, r, oc)]

\* what the awaited backend operation of task t may do when it resumes
OtherResult(tk, now) ==
    IF tk.handler = "completions"
    THEN create_completion_response(<<"x">>, "other", 0, 1, now)
    ELSE create_chat_completion_response(<<"x">>, "other", 0, 1, now)

AwaitOutcomes(tk, now) ==
    IF tk.llm.cls = "MockLLM"
    THEN {[error |-> NoError,
           body |-> IF tk.handler = "completions"
                    THEN complete(tk.arg, tk.n, now)
                    ELSE MockChatComplete(tk.arg, now)]}
    ELSE {[error |-> NoError, body |-> OtherResult(tk, now)]}
         \cup {[error |-> e, body |-> <<>>] : e \in OtherFailures}

ExceptPrefix(handler) ==
    IF handler = "completions" THEN "Completion request failed: "
    ELSE "Chat completion request failed: "

\* the handler after `await llm.complete(...)` / `await llm.chat_complete(...)`
AfterAwait(tk, o) ==
    [tk EXCEPT !.pc = "done", !.failed = o.error,
               !.response = IF o.error.kind = "none" THEN Result(o.body)
                            ELSE GenerationExcept(o.error, ExceptPrefix(tk.handler))]

\* the non-streaming backend call of task t completes and its handler returns
ResumeGeneration(t) ==
    /\ tasks[t].pc = "awaiting"
    /\ \E o \in AwaitOutcomes(tasks[t], clock) :
           tasks' = [tasks EXCEPT ![t] = AfterAwait(tasks[t], o)]
    /\ UNCHANGED <<regVars, lastCall, clock>>

\* the transport asks stream_generator of task t for its next event
FramerDrives(tk) == tk.framer = "loop"

StreamAfter(tk, r) ==
    LET f == stream_generator(tk.framer, r)
    IN  [tk EXCEPT !.framer = f.framer,
                   !.events = tk.events \o f.emit,
                   !.gen = IF FramerDrives(tk) THEN r.gen ELSE tk.gen,
                   !.requested = IF FramerDrives(tk) THEN tk.requested + 1
                                 ELSE tk.requested,
                   !.failed = IF FramerDrives(tk) /\ r.kind = "raise" THEN r.error
                              ELSE tk.failed,
                   !.pc = IF f.framer \in {"closed", "crashed"} THEN "done"
                          ELSE "streaming"]

StreamStep(t) ==
    /\ tasks[t].pc = "streaming"
    /\ \E r \in (IF FramerDrives(tasks[t]) THEN GenNext(tasks[t].gen, clock)
                 ELSE {Stop(tasks[t].gen, clock)}) :
           tasks' = [tasks EXCEPT ![t] = StreamAfter(tasks[t], r)]
    /\ UNCHANGED <<regVars, lastCall, clock>>

\* the client of task t disconnects: the transport closes stream_generator
Disconnect(t) ==
    /\ tasks[t].pc = "streaming"
    /\ \E e \in Cancellations :
           LET f == stream_generator_cancel(tasks[t].framer, e)
           IN  tasks' = [tasks EXCEPT ![t] =
                   [tasks[t] EXCEPT !.pc = IF f.open THEN "streaming"
                                           ELSE "cancelled",
                                    !.framer = f.framer,
                                    !.events = tasks[t].events \o f.emit]]
    /\ UNCHANGED <<regVars, lastCall, clock>>

\* the registry part of a handler step that called get_available_models
ListEffect(r) ==
    /\ instSeq + Len(r.built) <= MaxInstances
    /\ instances' = r.instances
    /\ instSeq' = instSeq + Len(r.built)
    /\ built' = built \o BuiltBy(r.built, "get_available_models")
    /\ UNCHANGED <<llm_classes, default_model, regLog, lastCall, returned, clock>>

ModelsReq(model_id) ==
    [model |-> model_id, stream |-> FALSE, n |-> 1, input |-> <<>>]

\* list_models
ListModelsResponse(r) ==
    IF r.error.kind # "none"
    THEN ModelsExcept(r.error, "Failed to retrieve model list: ")
    ELSE Result([object |-> "list", data |-> r.models])

ListModels(t, om) ==
    LET r == get_available_models(om)
    IN  /\ tasks[t].pc = "idle"
        /\ ListEffect(r)
        /\ tasks' = [tasks EXCEPT ![t] =
               [Returned1("list_models", ModelsReq(NoneVal), NoInstance,
                          ListModelsResponse(r)) EXCEPT !.failed = r.error]]

\* get_model returning the first listed descriptor whatever id is asked for
GetModelResponse_first_listed(r, model_id) ==
    IF r.error.kind # "none"
    THEN ModelsExcept(r.error, "Failed to retrieve model information: ")
    ELSE IF r.models # <<>>
    THEN Result(r.models[1])
    ELSE create_error_response(<<"Model '", model_id, "' not found">>,
                               "invalid_request_error", 404, "model")

\* get_model
GetModelResponse(r, model_id) ==
    IF r.error.kind # "none"
    THEN ModelsExcept(r.error, "Failed to retrieve model information: ")
    ELSE IF \E i \in DOMAIN r.models : r.models[i].id = model_id
    THEN Result(r.models[CHOOSE i \in DOMAIN r.models :
                    /\ r.models[i].id = model_id
                    /\ \A j \in 1 .. i - 1 : r.models[j].id # model_id])
    ELSE create_error_response(<<"Model '", model_id, "' not found">>,
                               "invalid_request_error", 404, "model")

GetModel(t, model_id, om) ==
    LET r == get_available_models(om)
    IN  /\ tasks[t].pc = "idle"
        /\ ListEffect(r)
        /\ tasks' = [tasks EXCEPT ![t] =
               [Returned1("get_model", ModelsReq(model_id), NoInstance,
                          GetModelResponse(r, model_id)) EXCEPT !.failed = r.error]]

\* the response of task t has been delivered; the task ends
Finish(t) ==
    /\ tasks[t].pc \in {"done", "cancelled", "rejected"}
    /\ tasks' = [tasks EXCEPT ![t] = IdleTask]
    /\ UNCHANGED <<regVars, lastCall, clock>>

\* a second passes
Tick ==
    /\ clock < MaxClock
    /\ clock' = clock + 1
    /\ UNCHANGED <<regVars, lastCall, tasks>>

(***************************************************************************)
(* Initial states.                                                         *)
(***************************************************************************)
\* the class-level state of LLMFactory when the module is imported
InitRegistry ==
    /\ llm_classes = <<>>
    /\ instances = <<>>
    /\ default_model = NoneVal
    /\ instSeq = 0
    /\ built = <<>>
    /\ lastCall = NoCall
    /\ returned = {}
    /\ regLog = [first |-> NoneVal, last_default |-> NoneVal]

Init ==
    /\ InitRegistry
    /\ clock = 0
    /\ tasks = [t \in Tasks |-> IdleTask]

\* the state when main.py has been imported: MockLLM registered as the default
InitServed ==
    /\ llm_classes = <<[name |-> "mock-gpt", cls |-> "MockLLM"]>>
    /\ instances = <<>>
    /\ default_model = "mock-gpt"
    /\ instSeq = 0
    /\ built = <<>>
    /\ lastCall = NoCall
    /\ returned = {}
    /\ regLog = [first |-> "mock-gpt", last_default |-> "mock-gpt"]
    /\ clock = 0
    /\ tasks = [t \in Tasks |-> IdleTask]

(***************************************************************************)
(* Request inputs.                                                         *)
(***************************************************************************)
Chars == {"a", " "}
StrUpTo(n) == UNION {[1 .. k -> Chars] : k \in 0 .. n}

StrPrompt(s) == [tag |-> "str", val |-> s]

\* the prompt shapes of CompletionRequest.prompt
SmallPrompts ==
    {StrPrompt(<<>>), StrPrompt(<<"a">>),
     [tag |-> "list_str", val |-> << <<"a">>, <<" ">> >>],
     [tag |-> "list_str", val |-> <<>>],
     [tag |-> "list_int", val |-> <<1, 2>>],
     [tag |-> "list_list_int", val |-> << <<1>> >>]}

RequestModels == {"mock-gpt", "no-such-model"}

\* the values of CompletionRequest.n in the requests (n >= 1, default 1)
ChoiceCounts == {1, 2}

CompletionRequests(models, prompts) ==
    {[model |-> m, stream |-> st, n |-> k, input |-> validate_prompt(p)] :
        m \in models, st \in BOOLEAN, k \in ChoiceCounts, p \in prompts}

Roles == {"user", "assistant"}
\* the message lists of a request body, the empty list included
Messages(n, len) ==
    UNION {[1 .. k -> [role : Roles, content : StrUpTo(len)]] : k \in 0 .. n}

ChatRequests(models, msgs) ==
    {[model |-> m, stream |-> st, n |-> 1, input |-> ms] :
        m \in models, st \in BOOLEAN, ms \in msgs}

ModelIds == {"mock-gpt-1", "mock-gpt", "unknown-id"}

AllOutcomes == {NoError} \cup OtherFailures

(***************************************************************************)
(* Spec: the server handling one request after another, from import on.    *)
(***************************************************************************)
Next ==
    \/ \E c \in Classes, d \in BOOLEAN : Register("mock-gpt", c, d)
    \/ \E req \in CompletionRequests(RequestModels, SmallPrompts),
          oc \in AllOutcomes : CreateCompletion(1, req, oc)
    \/ \E req \in ChatRequests(RequestModels, Messages(1, 1)),
          oc \in AllOutcomes : CreateChatCompletion(1, req, oc)
    \/ ResumeGeneration(1)
    \/ StreamStep(1)
    \/ Disconnect(1)
    \/ \E om \in OtherGetModels : ListModels(1, om)
    \/ \E id \in ModelIds, om \in OtherGetModels : GetModel(1, id, om)
    \/ Finish(1)
    \/ Tick

Spec == Init /\ [][Next]_vars

(***************************************************************************)
(* SpecRegistry: any sequence of direct calls of the registry operations.  *)
(***************************************************************************)
NextRegistry ==
    \/ \E n \in RegNames, c \in Classes, d \in BOOLEAN : Register(n, c, d)
    \/ \E n \in LookupNames \cup {NoneVal} : GetInstance(n)
    \/ \E om \in OtherGetModels : GetAvailableModels(om)

SpecRegistry == Init /\ [][NextRegistry]_vars

(***************************************************************************)
(* SpecConc: NumTasks request tasks served concurrently by the event loop  *)
(* of the imported server.  A step of a task runs from one suspension      *)
(* point (an await that yields to the loop, a yield to the transport) to   *)
(* the next: the handlers are coroutines of one event loop, and            *)
(* LLMFactory.get_instance / get_available_models contain no await.        *)
(***************************************************************************)
ConcModels == {"mock-gpt"}
ConcPrompts == {StrPrompt(<<>>)}
ConcMessages == {<<[role |-> "user", content |-> <<>>]>>}

NextConc ==
    \/ \E t \in Tasks, req \in CompletionRequests(ConcModels, ConcPrompts) :
          CreateCompletion(t, req, NoError)
    \/ \E t \in Tasks, req \in ChatRequests(ConcModels, ConcMessages) :
          CreateChatCompletion(t, req, NoError)
    \/ \E t \in Tasks : ResumeGeneration(t)
    \/ \E t \in Tasks : StreamStep(t)
    \/ \E t \in Tasks, om \in OtherGetModels : ListModels(t, om)
    \/ \E t \in Tasks, om \in OtherGetModels : GetModel(t, "mock-gpt-1", om)

SpecConc == InitServed /\ [][NextConc]_vars

(***************************************************************************)
(* SpecStream: one streaming request at a time to the imported server      *)
(* (MockLLM), over every prompt and message list within the bounds.        *)
(***************************************************************************)
StreamPrompts == {StrPrompt(s) : s \in StrUpTo(MaxPromptLen)}

StreamingOnly(reqs) == {req \in reqs : req.stream}

NextStream ==
    \/ \E req \in StreamingOnly(CompletionRequests({"mock-gpt"}, StreamPrompts)) :
          CreateCompletion(1, req, NoError)
    \/ \E req \in StreamingOnly(ChatRequests({"mock-gpt"},
                                    Messages(MaxMessages, MaxContentLen))) :
          CreateChatCompletion(1, req, NoError)
    \/ StreamStep(1)
    \/ Finish(1)

SpecStream == InitServed /\ [][NextStream]_vars

(***************************************************************************)
(* SpecLive: streaming requests, one at a time, whose client keeps         *)
(* consuming (no Disconnect).  The event loop resumes a stream that can    *)
(* take a step: the awaits of the backends (asyncio.sleep) complete and    *)
(* the transport keeps asking stream_generator for its next event.         *)
(***************************************************************************)
NextLive ==
    \/ \E c \in Classes, d \in BOOLEAN : Register("mock-gpt", c, d)
    \/ \E req \in StreamingOnly(CompletionRequests(RequestModels, ConcPrompts)),
          oc \in AllOutcomes : CreateCompletion(1, req, oc)
    \/ \E req \in StreamingOnly(ChatRequests(RequestModels, ConcMessages)),
          oc \in AllOutcomes : CreateChatCompletion(1, req, oc)
    \/ StreamStep(1)
    \/ Finish(1)

SpecLive == Init /\ [][NextLive]_vars /\ WF_vars(StreamStep(1))

(***************************************************************************)
(* SpecUsage: the server after import (MockLLM registered as "mock-gpt")   *)
(* answering streaming and non-streaming generation requests one by one.   *)
(***************************************************************************)
UsagePrompts == {StrPrompt(s) : s \in StrUpTo(MaxPromptLen + 1)}

NextUsage ==
    \/ \E req \in CompletionRequests({"mock-gpt"}, UsagePrompts) :
          CreateCompletion(1, req, NoError)
    \/ \E req \in ChatRequests({"mock-gpt"}, Messages(MaxMessages, MaxContentLen)) :
          CreateChatCompletion(1, req, NoError)
    \/ ResumeGeneration(1)
    \/ StreamStep(1)
    \/ Finish(1)

SpecUsage == InitServed /\ [][NextUsage]_vars

(***************************************************************************)
(* Properties.                                                             *)
(***************************************************************************)
\* the streams that were consumed to their end
Consumed(t) == tasks[t].pc = "done" /\ tasks[t].response.kind = "stream"

\* C1: every streaming response consumed to its end is zero or more chunk
\* events, then at most one error event, then exactly one [DONE] sentinel,
\* which is the last event.
C1_StreamShape ==
    \A t \in Tasks :
        Consumed(t) =>
            LET ev == tasks[t].events
                n  == Len(ev)
            IN  /\ n >= 1
                /\ IsDone(ev[n])
                /\ \A i \in 1 .. n - 1 :
                       /\ ~IsDone(ev[i])
                       /\ IsErrorEvent(ev[i]) => i = n - 1

C1_Witness ==
    \E t \in Tasks :
        /\ Consumed(t)
        /\ Len(tasks[t].events) >= 3
        /\ IsErrorEvent(tasks[t].events[Len(tasks[t].events) - 1])
        /\ IsChunkEvent(tasks[t].events[1])

\* C2: all get_instance calls that return for one model name return the
\* same backend object.
C2_SameInstance ==
    \A p \in returned, q \in returned : p[1] = q[1] => p[2] = q[2]

C2_Witness ==
    /\ \E p \in returned : p[3] = 2
    /\ lastCall.op = "get_instance"
    /\ lastCall.error.kind = "none"
    /\ lastCall.inst.id < instSeq

NamesBuilt(name) == {i \in DOMAIN built : built[i].name = name}

\* the tasks whose handler resolved a backend
Resolved(t) == tasks[t].llm # NoInstance

\* C3: concurrent request tasks that resolve the same model name for the
\* first time construct at most one backend object for it, and all obtain
\* that object (which is the one the registry holds).
C3_ConcurrentFirstResolve ==
    /\ \A t \in Tasks :
           Resolved(t) =>
               /\ tasks[t].model \in DOMAIN instances
               /\ instances[tasks[t].model] = tasks[t].llm
    /\ \A t1 \in Tasks, t2 \in Tasks :
           Resolved(t1) /\ Resolved(t2) /\ tasks[t1].model = tasks[t2].model
               => tasks[t1].llm = tasks[t2].llm
    /\ \A n \in RegisteredNames : Cardinality(NamesBuilt(n)) <= 1

C3_Witness ==
    \E t1 \in Tasks, t2 \in Tasks :
        /\ t1 # t2
        /\ tasks[t1].pc = "awaiting"
        /\ tasks[t2].pc = "streaming"
        /\ Resolved(t1) /\ Resolved(t2)
        /\ tasks[t1].model = tasks[t2].model
        /\ tasks[t1].handler # tasks[t2].handler
        /\ Cardinality(NamesBuilt(tasks[t1].model)) = 1

\* the text delta a chunk event carries
DeltaText(ev) ==
    LET choice == ev.payload.json.choices[1]
    IN  IF "text" \in DOMAIN choice THEN choice.text
        ELSE IF "content" \in DOMAIN choice.delta THEN choice.delta.content
        ELSE <<>>

ChunkEvents(ev) == SelectSeq(ev, IsChunkEvent)

DeltaTexts(ev) == [i \in DOMAIN ChunkEvents(ev) |-> DeltaText(ChunkEvents(ev)[i])]

\* the text of the non-streaming operation on the input of task t
FullText(t) ==
    IF tasks[t].handler = "completions"
    THEN MockComplete(tasks[t].arg, clock).choices[1].text
    ELSE MockChatComplete(tasks[t].arg, clock).choices[1].message.content

\* C4: the text deltas of a stream, concatenated in emission order, are the
\* text the non-streaming operation returns for the same input.
C4_StreamEqualsFull ==
    \A t \in Tasks :
        Consumed(t) /\ tasks[t].llm.cls = "MockLLM"
            => Concat(DeltaTexts(tasks[t].events)) = FullText(t)

\* C5: get_instance(None) returns the object get_instance(default name)
\* returns once a registration has occurred, and raises ValueError when none
\* has.
C5_DefaultResolve ==
    (lastCall.op = "get_instance" /\ lastCall.arg = NoneVal) =>
        IF lastCall.registered_before = {}
        THEN lastCall.error.kind = "ValueError" /\ lastCall.inst = NoInstance
        ELSE /\ lastCall.error.kind = "none"
             /\ lastCall.inst # NoInstance
             /\ get_instance(lastCall.default_before).error.kind = "none"
             /\ get_instance(lastCall.default_before).inst = lastCall.inst

C5_Witness ==
    /\ lastCall.op = "get_instance"
    /\ lastCall.arg = NoneVal
    /\ lastCall.error.kind = "none"
    /\ Len(llm_classes) = 2
    /\ lastCall.default_before # llm_classes[1].name
    /\ llm_classes[1].name \in DOMAIN instances

\* the streams whose backend raised while producing a chunk
FailedMidStream(t) ==
    tasks[t].response.kind = "stream" /\ tasks[t].failed.kind # "none"

\* C6: when the backend raises while producing chunk k, the framer has
\* emitted the frames of chunks 1..k-1, then one error event with the
\* failure message and type server_error, then [DONE] right after it, and it
\* never asks the backend for a further chunk.
C6_MidStreamFailure ==
    \A t \in Tasks :
        FailedMidStream(t) =>
            LET tk == tasks[t]
                k  == tk.gen.pos + 1
                ev == tk.events
            IN  /\ tk.requested = k
                /\ tk.framer \in {"error_sent", "done_sent", "closed"}
                /\ Len(ev) = IF tk.framer = "error_sent" THEN k ELSE k + 1
                /\ \A i \in 1 .. k - 1 :
                       ev[i] = Frame(JsonDumps(OtherChunk(tk.gen, tk.gen.ts)))
                /\ IsErrorEvent(ev[k])
                /\ ev[k].payload.json.error.message = tk.failed.msg
                /\ ev[k].payload.json.error.type = "server_error"
                /\ Len(ev) = k + 1 => IsDone(ev[k + 1])

C6_Witness ==
    \E t \in Tasks :
        /\ FailedMidStream(t)
        /\ tasks[t].gen.pos = MaxChunks
        /\ tasks[t].framer = "closed"

IsGeneration(t) == tasks[t].handler \in {"completions", "chat"}

ErrorType(t) == tasks[t].response.body.error.type

\* C7, as claimed: a ValueError of the backend is answered with HTTP 400
\* invalid_request_error and any other failure with server_error, for
\* streaming and non-streaming requests alike.
C7_AsClaimed ==
    \A t \in Tasks :
        (IsGeneration(t) /\ tasks[t].pc \in {"done", "cancelled"}
                         /\ tasks[t].failed.kind # "none") =>
            IF tasks[t].failed.kind = "ValueError"
            THEN /\ tasks[t].response.kind = "error"
                 /\ tasks[t].response.status = 400
                 /\ ErrorType(t) = "invalid_request_error"
            ELSE \/ /\ tasks[t].response.kind = "error"
                    /\ ErrorType(t) = "server_error"
                 \/ /\ tasks[t].response.kind = "stream"
                    /\ \E i \in DOMAIN tasks[t].events :
                           IsErrorEvent(tasks[t].events[i])

\* C7, amended: a failure raised before the handler returns is answered with
\* HTTP 400 invalid_request_error when it is a ValueError and with HTTP 500
\* server_error otherwise; a failure raised while the stream is produced is
\* answered, whatever its kind, by one server_error event in the HTTP 200
\* stream.
C7_FailureTranslation ==
    \A t \in Tasks :
        (IsGeneration(t) /\ tasks[t].failed.kind # "none") =>
            IF tasks[t].response.kind = "stream"
            THEN /\ tasks[t].response.status = 200
                 /\ Cardinality({i \in DOMAIN tasks[t].events :
                        IsErrorEvent(tasks[t].events[i])}) = 1
                 /\ \A i \in DOMAIN tasks[t].events :
                        IsErrorEvent(tasks[t].events[i]) =>
                            /\ tasks[t].events[i].payload.json.error.type = "server_error"
                            /\ tasks[t].events[i].payload.json.error.message
                                   = tasks[t].failed.msg
            ELSE /\ tasks[t].response.kind = "error"
                 /\ IF tasks[t].failed.kind = "ValueError"
                    THEN /\ tasks[t].response.status = 400
                         /\ ErrorType(t) = "invalid_request_error"
                         /\ tasks[t].response.body.error.message = tasks[t].failed.msg
                    ELSE /\ tasks[t].response.status = 500
                         /\ ErrorType(t) = "server_error"

C7_Witness ==
    \E t \in Tasks :
        /\ IsGeneration(t)
        /\ tasks[t].failed.kind = "ValueError"
        /\ Consumed(t)
        /\ tasks[t].handler = "chat"

FinishReason(ev) == ev.payload.json.choices[1].finish_reason

\* whether the backend generator of task t is exhausted
Exhausted(t) == tasks[t].framer \in {"done_sent", "closed"}

\* C9: in a backend stream the finish reason is null on every chunk but the
\* last, where it is "stop"; no chunk follows a chunk whose finish reason is
\* set.
C9_FinishReasonOnlyLast ==
    \A t \in Tasks :
        (tasks[t].response.kind = "stream" /\ tasks[t].llm.cls = "MockLLM") =>
            LET ch == ChunkEvents(tasks[t].events)
            IN  /\ \A i \in 1 .. Len(ch) - 1 : FinishReason(ch[i]) = NoneVal
                /\ Exhausted(t) =>
                       Len(ch) >= 1 /\ FinishReason(ch[Len(ch)]) = "stop"

\* C10: a backend object is constructed at most once per model name; a
\* cached object is never rebuilt, replaced or removed, and get_instance
\* returns the object whichever operation constructed it.
C10_ConstructedOnce ==
    /\ \A i \in DOMAIN built :
           /\ built[i].name \in DOMAIN instances
           /\ instances[built[i].name].id = i
    /\ \A n \in DOMAIN instances : Cardinality(NamesBuilt(n)) = 1
    /\ \A p \in returned :
           p[1] \in DOMAIN instances /\ instances[p[1]].id = p[2]

C10_Witness ==
    /\ \E i \in DOMAIN built :
           /\ built[i].by = "get_available_models"
           /\ <<built[i].name, i, 1>> \in returned
    /\ \E i \in DOMAIN built :
           /\ built[i].by = "get_instance"
           /\ lastCall.op = "get_available_models"
           /\ lastCall.error.kind = "none"
    /\ \E i \in DOMAIN llm_classes :
           llm_classes[i].cls # instances[llm_classes[i].name].cls

\* C11: after one or more register calls there is one default model: the name
\* of the most recent register call with is_default true or, when no call had
\* is_default true, the name of the first register call.
C11_DefaultRule ==
    regLog.first # NoneVal =>
        /\ default_model # NoneVal
        /\ default_model = IF regLog.last_default # NoneVal
                           THEN regLog.last_default
                           ELSE regLog.first

C11_Witness ==
    /\ lastCall.op = "register"
    /\ regLog.last_default \notin {NoneVal, regLog.first}
    /\ lastCall.arg # regLog.last_default
    /\ default_model = regLog.last_default

\* C12: register on a name that is already registered does not fail; it
\* stores the new class under that name and leaves the classes stored under
\* all other names as they were.
C12_ReRegister ==
    [][\A n \in RegNames, c \in Classes, d \in BOOLEAN :
          (Register(n, c, d) /\ n \in RegisteredNames) =>
              /\ RegisteredNames' = RegisteredNames
              /\ Len(llm_classes') = Len(llm_classes)
              /\ \A i \in DOMAIN llm_classes' :
                     llm_classes'[i].name = n => llm_classes'[i].cls = c
              /\ \A i \in DOMAIN llm_classes :
                     llm_classes[i].name # n =>
                         \E j \in DOMAIN llm_classes' :
                             llm_classes'[j] = llm_classes[i]]_vars

C12_Witness ==
    /\ lastCall.op = "register"
    /\ lastCall.arg \in lastCall.registered_before
    /\ Len(llm_classes) = 2
    /\ lastCall.arg \in DOMAIN instances
    /\ instances[lastCall.arg].cls # ClassOf(lastCall.arg)
    /\ \E i \in DOMAIN llm_classes :
           llm_classes[i].name # lastCall.arg /\ llm_classes[i].cls = "OtherLLM"

\* C13: get_instance(name) for a name with no registered class raises
\* ValueError and leaves the registry as it was: no instance is cached or
\* constructed, and the registrations and the default are unchanged.
C13_ResolveMissing ==
    [][\A n \in LookupNames :
          (GetInstance(n) /\ n \notin RegisteredNames) =>
              /\ lastCall'.error = ValueError(<<"Model '", n, "' not found">>)
              /\ lastCall'.inst = NoInstance
              /\ instances' = instances
              /\ instSeq' = instSeq
              /\ built' = built
              /\ llm_classes' = llm_classes
              /\ default_model' = default_model]_vars

C13_Witness ==
    /\ lastCall.op = "get_instance"
    /\ lastCall.arg \notin RegisteredNames \cup {NoneVal}
    /\ lastCall.error.kind = "ValueError"
    /\ llm_classes # <<>>
    /\ DOMAIN instances # {}
    /\ lastCall.arg \notin DOMAIN instances

\* the descriptors the backends cached under the registered names declare, in
\* the order of llm_classes
DeclaredModels(insts, om) ==
    Concat([i \in DOMAIN llm_classes |->
               get_models(insts[llm_classes[i].name], om).models])

\* C14: a get_available_models call that returns has instantiated every
\* registered backend that was not cached (and no other), and returns the
\* concatenation, in registration order, of the descriptors each registered
\* backend declares, without duplicate ids when the backends declare
\* distinct ids.
C14_ListAvailable ==
    [][\A om \in OtherGetModels :
          (GetAvailableModels(om) /\ lastCall'.error.kind = "none") =>
              /\ RegisteredNames \subseteq DOMAIN instances'
              /\ \A n \in DOMAIN instances : instances'[n] = instances[n]
              /\ DOMAIN instances' = DOMAIN instances \cup RegisteredNames
              /\ instSeq' - instSeq =
                     Cardinality(RegisteredNames \ DOMAIN instances)
              /\ llm_classes # <<>> => llm_classes[1].name = regLog.first
              /\ lastCall'.models = DeclaredModels(instances', om)
              /\ (\A i, j \in DOMAIN llm_classes :
                      i # j => instances'[llm_classes[i].name].cls
                                   # instances'[llm_classes[j].name].cls)
                 => \A i, j \in DOMAIN lastCall'.models :
                        i # j => lastCall'.models[i].id # lastCall'.models[j].id]_vars

C14_Witness ==
    /\ lastCall.op = "get_available_models"
    /\ lastCall.error.kind = "none"
    /\ Len(llm_classes) = 2
    /\ Len(lastCall.models) = 2
    /\ lastCall.models[1].id = "other-1"
    /\ lastCall.models[2].id = "mock-gpt-1"
    /\ \E i, j \in DOMAIN built :
           built[i].by = "get_instance" /\ built[j].by = "get_available_models"

\* the generation requests whose model name get_instance could not resolve
UnresolvedModel(t) ==
    /\ IsGeneration(t)
    /\ tasks[t].pc = "done"
    /\ tasks[t].llm = NoInstance

\* C15: a completion or chat-completion request naming a model with no
\* registration is answered with HTTP 400 and an error envelope of type
\* invalid_request_error that carries a param field.
C15_MissingModelParam ==
    \A t \in Tasks :
        UnresolvedModel(t) =>
            /\ tasks[t].response.kind = "error"
            /\ tasks[t].response.status = 400
            /\ ErrorType(t) = "invalid_request_error"
            /\ "param" \in DOMAIN tasks[t].response.body.error

\* C16: get_model returns the descriptor whose id is the requested id exactly
\* when that id is among the descriptors get_available_models returns; for
\* every other id it returns HTTP 404 with an error of type
\* invalid_request_error and param "model".
C16_ModelLookup ==
    [][\A t \in Tasks, id \in ModelIds, om \in OtherGetModels :
          (GetModel(t, id, om) /\ get_available_models(om).error.kind = "none") =>
              LET models == get_available_models(om).models
                  resp   == tasks'[t].response
              IN  IF \E i \in DOMAIN models : models[i].id = id
                  THEN /\ resp.kind = "result"
                       /\ resp.status = 200
                       /\ resp.body.id = id
                       /\ \E i \in DOMAIN models : models[i] = resp.body
                  ELSE /\ resp.kind = "error"
                       /\ resp.status = 404
                       /\ resp.body.error.type = "invalid_request_error"
                       /\ "param" \in DOMAIN resp.body.error
                       /\ resp.body.error.param = "model"]_vars

C16_Witness ==
    \E t \in Tasks :
        /\ tasks[t].handler = "get_model"
        /\ tasks[t].pc = "done"
        /\ tasks[t].model = "mock-gpt"
        /\ tasks[t].response.status = 404
        /\ "mock-gpt" \in DOMAIN instances
        /\ instances["mock-gpt"].cls = "MockLLM"

\* whether the response of task t carries an identifier yet, and that identifier
HasRequestId(t) ==
    \/ tasks[t].response.kind = "result" /\ IsGeneration(t)
    \/ tasks[t].response.kind = "stream" /\ ChunkEvents(tasks[t].events) # <<>>

RequestId(t) ==
    IF tasks[t].response.kind = "result" THEN tasks[t].response.body.id
    ELSE ChunkEvents(tasks[t].events)[1].payload.json.id

\* C17: two distinct generation requests carry distinct identifiers, also
\* when both are served within the same clock second.
C17_DistinctIds ==
    \A t1, t2 \in Tasks :
        (t1 # t2 /\ HasRequestId(t1) /\ HasRequestId(t2)) =>
            RequestId(t1) # RequestId(t2)

\* the chat-completion requests whose messages list is empty and that have
\* been answered
EmptyMessagesAnswered(t) ==
    /\ tasks[t].handler = "chat"
    /\ tasks[t].input = <<>>
    /\ tasks[t].pc \in {"done", "rejected"}

\* C18: a chat-completion request with an empty messages list does not fail:
\* it is answered with the chat result of one user message of empty content.
C18_EmptyMessages ==
    \A t \in Tasks :
        (EmptyMessagesAnswered(t) /\ tasks[t].model = "mock-gpt"
                                  /\ "mock-gpt" \in RegisteredNames) =>
            \/ tasks[t].response.kind = "stream"
            \/ /\ tasks[t].response.kind = "result"
               /\ tasks[t].response.body.choices[1].message.content
                      = MockChatContent(<<[role |-> "user", content |-> <<>>]>>)

\* the completion requests whose prompt is a list of integers or of integer
\* lists
TokenPrompt(t) ==
    /\ tasks[t].handler = "completions"
    /\ tasks[t].input.tag \in {"list_int", "list_list_int"}

\* no backend generation operation was called for the request of task t
NoGeneration(t) ==
    /\ tasks[t].pc = "done"
    /\ tasks[t].gen = NoGen
    /\ tasks[t].requested = 0
    /\ tasks[t].events = <<>>
    /\ tasks[t].response.kind \notin {"result", "stream"}

ListPrompt(t) ==
    /\ tasks[t].handler = "completions"
    /\ tasks[t].input.tag = "list_str"
    /\ tasks[t].llm # NoInstance

\* the prompts that are lists of strings
ListPrompts == {p \in SmallPrompts : p.tag = "list_str"}

\* C20: a completion request whose prompt is a list of strings is handled as
\* the same request with the first element of the list as its prompt (an
\* empty list as the empty string): the backend receives that element only.
C20_ListPromptFirst ==
    /\ \A p \in ListPrompts :
           validate_prompt(p) = IF p.val = <<>> THEN StrPrompt(<<>>) ELSE p
    /\ \A req \in CompletionRequests(RequestModels, ListPrompts),
          oc \in AllOutcomes :
           LET r    == get_instance(req.model)
               same == [req EXCEPT !.input = StrPrompt(PromptText(req.input))]
           IN  /\ req.input.tag = "list_str" => PromptText(req.input) = req.input.val[1]
               /\ CompletionStart(req, r, oc)
                      = [CompletionStart(same, r, oc) EXCEPT !.input = req.input]
    /\ \A t \in Tasks :
           ListPrompt(t) =>
               /\ tasks[t].arg = tasks[t].input.val[1]
               /\ tasks[t].gen # NoGen => tasks[t].gen.arg = tasks[t].input.val[1]
               /\ (tasks[t].response.kind = "result" /\ tasks[t].llm.cls = "MockLLM") =>
                      tasks[t].response.body
                          = MockComplete(tasks[t].input.val[1],
                                         tasks[t].response.body.created)

C20_Witness ==
    \E t \in Tasks :
        /\ ListPrompt(t)
        /\ Len(tasks[t].input.val) = 2
        /\ tasks[t].input.val[1] # tasks[t].input.val[2]
        /\ tasks[t].pc = "done"
        /\ tasks[t].response.kind = "result"
        /\ tasks[t].llm.cls = "MockLLM"
        /\ tasks[t].response.body.choices[1].text = MockPrefix \o tasks[t].input.val[1]

\* C21: when the client disconnects mid-stream, the framer requests no
\* further chunk from the backend and emits no further event: the disconnect
\* itself emits nothing, and a cancelled stream only ever ends.
C21_DisconnectStops ==
    [][\A t \in Tasks :
          /\ Disconnect(t) =>
                 /\ tasks'[t].pc = "cancelled"
                 /\ tasks'[t].events = tasks[t].events
                 /\ tasks'[t].requested = tasks[t].requested
                 /\ tasks'[t].gen = tasks[t].gen
          /\ tasks[t].pc = "cancelled" =>
                 \/ tasks'[t] = tasks[t]
                 \/ tasks'[t] = IdleTask]_vars

C21_Witness ==
    \E t \in Tasks :
        /\ tasks[t].pc = "cancelled"
        /\ tasks[t].gen.state = "running"
        /\ tasks[t].requested >= 1
        /\ Len(tasks[t].events) = tasks[t].requested
        /\ \A i \in DOMAIN tasks[t].events : IsChunkEvent(tasks[t].events[i])

\* whether the string s contains the string sub
Contains(s, sub) ==
    \E i \in 0 .. Len(s) - Len(sub) : SubSeq(s, i + 1, i + Len(sub)) = sub

\* the non-streaming completion requests with a string prompt whose model
\* resolved to a MockLLM instance
PlainCompletion(t) ==
    /\ tasks[t].handler = "completions"
    /\ ~tasks[t].stream
    /\ tasks[t].input.tag = "str"
    /\ tasks[t].llm.cls = "MockLLM"

\* C22: for a string prompt and a registered model the non-streaming
\* completion succeeds with exactly one choice, of index 0, whose text
\* contains the prompt and whose finish reason is "stop", whatever n is.
C22_OneChoice ==
    \A t \in Tasks :
        PlainCompletion(t) =>
            /\ tasks[t].pc \in {"awaiting", "done"}
            /\ tasks[t].failed = NoError
            /\ tasks[t].pc = "done" =>
                   /\ tasks[t].response.kind = "result"
                   /\ tasks[t].response.status = 200
                   /\ Len(tasks[t].response.body.choices) = 1
                   /\ tasks[t].response.body.choices[1].index = 0
                   /\ Contains(tasks[t].response.body.choices[1].text,
                               tasks[t].input.val)
                   /\ tasks[t].response.body.choices[1].text
                          = MockPrefix \o tasks[t].input.val
                   /\ tasks[t].response.body.choices[1].finish_reason = "stop"

C22_Witness ==
    \E t \in Tasks :
        /\ PlainCompletion(t)
        /\ tasks[t].pc = "done"
        /\ tasks[t].n = 2
        /\ tasks[t].input.val = <<"a">>
        /\ Len(tasks[t].response.body.choices) = 1

\* the chunks, in emission order, of the stream of task t
Chunks(t) ==
    [i \in DOMAIN ChunkEvents(tasks[t].events) |->
        ChunkEvents(tasks[t].events)[i].payload.json]

\* C23: all chunks of one stream carry the same identifier and the same
\* creation timestamp, however much time passes between the chunks.
C23_SameIdAndCreated ==
    \A t \in Tasks :
        (tasks[t].response.kind = "stream" /\ tasks[t].llm.cls = "MockLLM") =>
            \A i, j \in DOMAIN Chunks(t) :
                /\ Chunks(t)[i].id = Chunks(t)[j].id
                /\ Chunks(t)[i].created = Chunks(t)[j].created

C23_Witness ==
    \E t \in Tasks :
        /\ tasks[t].response.kind = "stream"
        /\ tasks[t].llm.cls = "MockLLM"
        /\ tasks[t].gen.state = "running"
        /\ tasks[t].gen.at > tasks[t].gen.ts
        /\ Len(Chunks(t)) >= 2
        /\ Chunks(t)[Len(Chunks(t))].created = tasks[t].gen.ts

HasUsage(chunk) == "usage" \in DOMAIN chunk

\* C24: in a backend stream the usage summary is carried by the final chunk
\* and by no earlier chunk.
C24_UsageOnFinalOnly ==
    \A t \in Tasks :
        (tasks[t].response.kind = "stream" /\ tasks[t].llm.cls = "MockLLM") =>
            /\ \A i \in 1 .. Len(Chunks(t)) - 1 : ~HasUsage(Chunks(t)[i])
            /\ Exhausted(t) =>
                   /\ Len(Chunks(t)) >= 1
                   /\ HasUsage(Chunks(t)[Len(Chunks(t))])

C24_Witness ==
    \E t \in Tasks :
        /\ Consumed(t)
        /\ tasks[t].handler = "completions"
        /\ Len(Chunks(t)) >= 3
        /\ HasUsage(Chunks(t)[Len(Chunks(t))])
        /\ Chunks(t)[Len(Chunks(t))].usage.prompt_tokens >= 1

\* the delta of the i-th chunk of the chat stream of task t
Delta(t, i) == Chunks(t)[i].choices[1].delta

\* C25: in a chat stream the delta of the first chunk carries only a role,
\* the delta of every chunk between the first and the last only a content
\* fragment, and the delta of the last chunk is empty.
C25_ChatDeltaShapes ==
    \A t \in Tasks :
        (tasks[t].response.kind = "stream" /\ tasks[t].handler = "chat"
                                           /\ tasks[t].llm.cls = "MockLLM") =>
            /\ Len(Chunks(t)) >= 1 => DOMAIN Delta(t, 1) = {"role"}
            /\ \A i \in 2 .. Len(Chunks(t)) - 1 : DOMAIN Delta(t, i) = {"content"}
            /\ Exhausted(t) =>
                   /\ Len(Chunks(t)) >= 3
                   /\ DOMAIN Delta(t, Len(Chunks(t))) = {}

C25_Witness ==
    \E t \in Tasks :
        /\ Consumed(t)
        /\ tasks[t].handler = "chat"
        /\ Len(tasks[t].arg) = 2
        /\ Len(Chunks(t)) >= 4
        /\ Delta(t, 1) = [role |-> "assistant"]
        /\ Delta(t, Len(Chunks(t))) = <<>>

\* the chunk the backend generator g yielded as its i-th
NthChunk(g, i) ==
    LET before == [g EXCEPT !.state = "running", !.pos = i - 1]
    IN  IF g.cls = "MockLLM"
        THEN IF g.op = "complete_stream"
             THEN MockCompleteStreamNext(before, g.ts).chunk
             ELSE MockChatCompleteStreamNext(before, g.ts).chunk
        ELSE OtherChunk(g, g.ts)

\* C26: while the backend sequence has not failed, the framer has emitted one
\* event per chunk yielded, the i-th being the serialization of the i-th
\* chunk, each before the next chunk is requested; when the sequence is
\* exhausted after n chunks the n chunk events are followed by the sentinel
\* and there is no error event.
C26_NormalExhaustion ==
    \A t \in Tasks :
        (tasks[t].response.kind = "stream" /\ tasks[t].failed = NoError) =>
            LET tk == tasks[t]
                n  == tk.gen.pos
                ev == tk.events
            IN  /\ Len(ev) >= n
                /\ \A i \in 1 .. n : ev[i] = Frame(JsonDumps(NthChunk(tk.gen, i)))
                /\ \A i \in DOMAIN ev : ~IsErrorEvent(ev[i])
                /\ tk.framer = "loop" => Len(ev) = n /\ tk.requested = n
                /\ tk.framer \in {"done_sent", "closed"} =>
                       /\ tk.gen.state = "finished"
                       /\ tk.requested = n + 1
                       /\ Len(ev) = n + 1
                       /\ ev[n + 1] = DoneFrame

C26_Witness ==
    \E t \in Tasks :
        /\ Consumed(t)
        /\ tasks[t].failed = NoError
        /\ tasks[t].llm.cls = "OtherLLM"
        /\ tasks[t].gen.pos = MaxChunks
        /\ Len(tasks[t].events) = MaxChunks + 1
        /\ IsDone(tasks[t].events[MaxChunks + 1])

\* the stream of task t has emitted the sentinel as its last event and closed
DoneAndClosed(t) ==
    /\ tasks[t].pc = "done"
    /\ tasks[t].framer = "closed"
    /\ tasks[t].events # <<>>
    /\ IsDone(tasks[t].events[Len(tasks[t].events)])

\* C27: with a client that keeps consuming and a backend sequence that ends
\* or fails, every streaming response eventually emits the [DONE] sentinel
\* and closes.
C27_EventuallyDone ==
    \A t \in Tasks : (tasks[t].pc = "streaming") ~> DoneAndClosed(t)

C27_Witness ==
    \E t \in Tasks :
        /\ DoneAndClosed(t)
        /\ tasks[t].failed.kind = "RuntimeError"
        /\ tasks[t].gen.pos >= 1

\* the events of a MockLLM stream served with no other request in progress:
\* stream_generator driven from a fresh generator to its return
RECURSIVE ServedAlone(_, _, _)
ServedAlone(g, framer, now) ==
    IF framer \notin {"loop", "done_sent", "error_sent"} THEN <<>>
    ELSE LET r == IF framer # "loop" THEN Stop(g, now)
                  ELSE IF g.op = "complete_stream"
                  THEN MockCompleteStreamNext(g, now)
                  ELSE MockChatCompleteStreamNext(g, now)
             f == stream_generator(framer, r)
         IN  f.emit \o ServedAlone(r.gen, f.framer, now)

IsPrefix(s, u) == Len(s) <= Len(u) /\ SubSeq(u, 1, Len(s)) = s

\* C28: with streaming requests in progress at once and their steps
\* interleaved in any order, the events of each response are at every moment
\* a prefix of, and at its end equal to, the event sequence of the same
\* request served alone.
C28_IndependentStreams ==
    \A t \in Tasks :
        (tasks[t].response.kind = "stream" /\ tasks[t].llm.cls = "MockLLM") =>
            LET alone == ServedAlone(NewGen(tasks[t].gen.op, "MockLLM", tasks[t].gen.arg),
                                     "loop", clock)
            IN  /\ IsPrefix(tasks[t].events, alone)
                /\ Consumed(t) => tasks[t].events = alone

C28_Witness ==
    \E t1 \in Tasks, t2 \in Tasks :
        /\ t1 # t2
        /\ tasks[t1].response.kind = "stream" /\ tasks[t2].response.kind = "stream"
        /\ tasks[t1].llm.cls = "MockLLM" /\ tasks[t2].llm.cls = "MockLLM"
        /\ tasks[t1].handler = tasks[t2].handler
        /\ Consumed(t1)
        /\ tasks[t2].pc = "streaming"
        /\ Len(tasks[t2].events) = 2
        /\ tasks[t1].requested > Len(tasks[t2].events) + 2

\* the number of whitespace-delimited words of s: the positions at which a
\* word starts
WordCount(s) ==
    Cardinality({i \in DOMAIN s :
                    s[i] \notin Whitespace /\ (i = 1 \/ s[i - 1] \in Whitespace)})

RECURSIVE ContentWords(_)
ContentWords(messages) ==
    IF messages = <<>> THEN 0
    ELSE WordCount(Head(messages).content) + ContentWords(Tail(messages))

\* the words of the prompt of the request of task t
PromptWords(t) ==
    IF tasks[t].handler = "completions" THEN WordCount(tasks[t].input.val)
    ELSE ContentWords(tasks[t].input)

UsageIs(usage, prompt_words, text) ==
    /\ usage.prompt_tokens = prompt_words
    /\ usage.completion_tokens = WordCount(text)
    /\ usage.total_tokens = usage.prompt_tokens + usage.completion_tokens

\* C29: in every non-streaming generation result and in every chunk of a
\* stream that carries a usage, prompt_tokens is the number of
\* whitespace-delimited words of the prompt (summed over the message
\* contents for chat), completion_tokens the number of words of the
\* generated text, and total_tokens their sum.
C29_UsageCounts ==
    \A t \in Tasks :
        (tasks[t].handler \in {"completions", "chat"} /\ tasks[t].llm.cls = "MockLLM") =>
            /\ tasks[t].response.kind = "result" =>
                   LET body == tasks[t].response.body
                   IN  UsageIs(body.usage, PromptWords(t),
                               IF tasks[t].handler = "completions"
                               THEN body.choices[1].text
                               ELSE body.choices[1].message.content)
            /\ tasks[t].response.kind = "stream" =>
                   \A i \in DOMAIN Chunks(t) :
                       HasUsage(Chunks(t)[i]) =>
                           UsageIs(Chunks(t)[i].usage, PromptWords(t),
                                   Concat(DeltaTexts(tasks[t].events)))

C29_Witness ==
    \E t \in Tasks :
        /\ tasks[t].handler = "chat"
        /\ Consumed(t)
        /\ Len(tasks[t].input) = 2
        /\ WordCount(tasks[t].input[1].content) = 1
        /\ WordCount(tasks[t].input[2].content) = 1
        /\ HasUsage(Chunks(t)[Len(Chunks(t))])
        /\ Chunks(t)[Len(Chunks(t))].usage.prompt_tokens = 2

\* the name a get_instance call with argument n resolves
ResolvedName(n, default) == IF n = NoneVal THEN default ELSE n

\* C30 as stated: the instance get_instance returns was constructed by the
\* class registered under the resolved name at the time of the call.
C30_AsClaimed ==
    [][\A n \in LookupNames \cup {NoneVal} :
          (GetInstance(n) /\ lastCall'.error = NoError) =>
              lastCall'.inst.cls = ClassOf(ResolvedName(n, default_model))]_vars

\* C30: an instance is constructed by the class registered under its name at
\* the moment of its construction (the first get_instance of the name, or a
\* get_available_models before it); a cached instance is never replaced,
\* whatever is registered afterwards, and get_instance returns the cached
\* instance of the resolved name.
C30_ConstructedWhenFirstBuilt ==
    [][/\ \A name \in DOMAIN instances :
              name \in DOMAIN instances' /\ instances'[name] = instances[name]
       /\ \A name \in DOMAIN instances' \ DOMAIN instances :
              /\ name \in RegisteredNames
              /\ instances'[name].cls = ClassOf(name)
              /\ instances'[name].id > instSeq
       /\ \A n \in LookupNames \cup {NoneVal} :
              (GetInstance(n) /\ lastCall'.error = NoError) =>
                  lastCall'.inst = instances'[ResolvedName(n, default_model)]]_vars

C30_Witness ==
    /\ lastCall.op = "get_instance"
    /\ lastCall.error = NoError
    /\ LET name == ResolvedName(lastCall.arg, lastCall.default_before)
       IN  /\ name \in RegisteredNames
           /\ lastCall.inst = instances[name]
           /\ lastCall.inst.cls = "MockLLM"
           /\ ClassOf(name) = "OtherLLM"

\* C31: every model id the model listing returned is accepted as the model
\* name of a generation request: get_instance(id) succeeds for each listed id.
C31_ListedIdsResolve ==
    \A t \in Tasks :
        (tasks[t].handler = "list_models" /\ tasks[t].response.kind = "result") =>
            \A i \in DOMAIN tasks[t].response.body.data :
                get_instance(tasks[t].response.body.data[i].id).error = NoError

\* C32: in every registry state the default model is unset exactly when no
\* register call has occurred, the default model when set is a registered
\* name, and every name with a cached instance is a registered name.
C32_RegistryInvariants ==
    /\ (default_model = NoneVal) <=> (llm_classes = <<>>)
    /\ (default_model = NoneVal) <=> (regLog.first = NoneVal)
    /\ default_model # NoneVal => default_model \in RegisteredNames
    /\ DOMAIN instances \subseteq RegisteredNames

C32_Witness ==
    /\ Cardinality(RegisteredNames) = 2
    /\ default_model = llm_classes[2].name
    /\ DOMAIN instances = {llm_classes[1].name}
    /\ lastCall.op = "get_instance"
    /\ lastCall.arg = "no-such-model"

\* the usage of the non-streaming operation on the input of the stream of
\* task t
FullUsage(t) ==
    IF tasks[t].handler = "completions"
    THEN complete(tasks[t].gen.arg, tasks[t].n, clock).usage
    ELSE MockChatComplete(tasks[t].gen.arg, clock).usage

\* C33: the usage carried by the final chunk of a stream (prompt, completion
\* and total counts) equals the usage of the non-streaming operation on the
\* same input.
C33_StreamUsageEqualsFull ==
    \A t \in Tasks :
        (tasks[t].response.kind = "stream" /\ tasks[t].llm.cls = "MockLLM") =>
            \A i \in DOMAIN Chunks(t) :
                HasUsage(Chunks(t)[i]) => Chunks(t)[i].usage = FullUsage(t)

C33_Witness ==
    \E t \in Tasks :
        /\ Consumed(t)
        /\ tasks[t].handler = "completions"
        /\ tasks[t].llm.cls = "MockLLM"
        /\ HasUsage(Chunks(t)[Len(Chunks(t))])
        /\ Chunks(t)[Len(Chunks(t))].usage = FullUsage(t)
        /\ FullUsage(t).prompt_tokens = 2
        /\ FullUsage(t).total_tokens = 10

====
